---- MODULE Spec2Model ----
(***************************************************************************)
(* Model of scripts/generate-cv.py: the command-line run (argument check,  *)
(* output directory, style copy, generate_cv, two xelatex passes, cleanup) *)
(* and the pure text functions it is built from (escape_latex,             *)
(* format_date, format_date_range, the section generators and the          *)
(* placeholder replacement of generate_cv).                                *)
(*                                                                         *)
(* Texts are TLA+ strings; TLC evaluates Len, \o, SubSeq, Head and Tail on *)
(* them, so str.replace and the f-strings are modelled character by        *)
(* character.  The en dash U+2013 of format_date_range is written EnDash.  *)
(***************************************************************************)
EXTENDS Integers, Sequences, FiniteSets, TLC

VARIABLES
    pc,         \* position of the __main__ block
    argv,       \* sys.argv[1:]
    lang,       \* the language selected at line 278
    env,        \* the files the run reads: data, config, template, style
    outdir,     \* TRUE when the output directory exists
    outdir0,    \* whether it existed when the run started
    files0,     \* names in the output directory when the run started
    files,      \* names in the output directory now
    rets,       \* the values os.system returned so far, in order
    events,     \* the filesystem and subprocess steps taken so far, in order
    exit,       \* the exit status of the process, -1 while it runs
    call,       \* the pure function under study and its arguments
    result      \* what that function returned, or Pending

vars == <<pc, argv, lang, env, outdir, outdir0, files0, files, rets, events,
          exit, call, result>>

Pending == [done |-> FALSE]
NoCall  == [fn |-> "none"]

Returned(v) == [done |-> TRUE, value |-> v]

Char(s, i) == SubSeq(s, i, i)

(***************************************************************************)
(* The command-line run.                                                   *)
(***************************************************************************)

\* a loop that runs the compiler once more
NumPasses_Extra == 2 + 1

\* range(2) at line 316
NumPasses == 2

\* a language check that lets "fr" through
Langs_Wide == {"en", "it", "fr"}

\* the list of line 280
Langs == {"en", "it"}

Argvs == {<< >>, <<"en">>, <<"it">>, <<"fr">>, <<"EN">>, <<"it", "en">>}

\* os.system returns 0 or a non-zero wait status
RetCodes == {0, 256}

cls_file == "awesome-cv.cls"

OutFile(l, ext) == "cv-" \o l \o ext

\* an extension list that forgets the log
CleanupExts_NoLog == {".aux", ".out", ".tex"}

\* the extension list of the cleanup loop, line 333
CleanupExts == {".aux", ".out", ".tex", ".log"}

\* what one xelatex pass may leave in its working directory
CompilerOutputs(l) == {OutFile(l, ".aux"), OutFile(l, ".out"),
                       OutFile(l, ".log"), OutFile(l, ".pdf")}

\* leftovers an output directory may hold before the run
Leftovers == {"cv-en.pdf", "cv-it.log", cls_file}

Envs == [data : {"ok", "missing", "malformed"},
         config : {"absent", "ok", "malformed"},
         template : {"ok", "missing"},
         style : {"ok", "missing"}]

Fail == /\ exit' = 1
        /\ pc' = "exit"

RunFrame == UNCHANGED <<argv, env, outdir0, files0, call, result>>

\* lines 273-276
CheckArgc ==
    /\ pc = "args"
    /\ IF Len(argv) < 1
         THEN Fail
         ELSE pc' = "lang" /\ UNCHANGED exit
    /\ UNCHANGED <<lang, outdir, files, rets>>
    /\ UNCHANGED events
    /\ RunFrame

\* lines 278-282
CheckLang ==
    /\ pc = "lang"
    /\ lang' = argv[1]
    /\ IF argv[1] \notin Langs
         THEN Fail
         ELSE pc' = "mkdir" /\ UNCHANGED exit
    /\ UNCHANGED <<outdir, files, rets>>
    /\ UNCHANGED events
    /\ RunFrame

\* lines 296-302
MakeOutputDir ==
    /\ pc = "mkdir"
    /\ outdir' = TRUE
    /\ events' = Append(events, "mkdir")
    /\ pc' = "copy"
    /\ UNCHANGED <<lang, files, rets, exit>>
    /\ RunFrame

\* lines 305-306: shutil.copy raises when the style file is missing
CopyStyle ==
    /\ pc = "copy"
    /\ IF env.style = "ok"
         THEN /\ files' = files \cup {cls_file}
              /\ events' = Append(events, "copy")
              /\ pc' = "config"
              /\ UNCHANGED exit
         ELSE Fail /\ UNCHANGED <<files, events>>
    /\ UNCHANGED <<lang, outdir, rets>>
    /\ RunFrame

\* line 164 (load_config, lines 16-22): a malformed config.yaml raises
LoadConfig ==
    /\ pc = "config"
    /\ IF env.config = "malformed"
         THEN Fail
         ELSE pc' = "json" /\ UNCHANGED exit
    /\ UNCHANGED <<lang, outdir, files, rets>>
    /\ UNCHANGED events
    /\ RunFrame

\* lines 167-168: open raises on a missing file, json.load on a bad one
ReadJson ==
    /\ pc = "json"
    /\ IF env.data # "ok"
         THEN Fail
         ELSE pc' = "template" /\ UNCHANGED exit
    /\ UNCHANGED <<lang, outdir, files, rets>>
    /\ UNCHANGED events
    /\ RunFrame

\* lines 171-178
ReadTemplate ==
    /\ pc = "template"
    /\ IF env.template # "ok"
         THEN Fail
         ELSE pc' = "write" /\ UNCHANGED exit
    /\ UNCHANGED <<lang, outdir, files, rets>>
    /\ UNCHANGED events
    /\ RunFrame

\* lines 264-269
WriteTex ==
    /\ pc = "write"
    /\ files' = files \cup {OutFile(lang, ".tex")}
    /\ events' = Append(events, "write")
    /\ pc' = "compile"
    /\ UNCHANGED <<lang, outdir, rets, exit>>
    /\ RunFrame

\* a loop that tidies up before it gives up
Compile_Tidy ==
    /\ pc = "compile"
    /\ Len(rets) < NumPasses
    /\ \E ret \in RetCodes, made \in SUBSET CompilerOutputs(lang) :
         /\ rets' = Append(rets, ret)
         /\ events' = Append(events, "xelatex")
         /\ IF ret # 0
              THEN /\ Fail
                   /\ files' = (files \cup made) \ {OutFile(lang, ".tex"), cls_file}
              ELSE /\ pc' = IF Len(rets) + 1 < NumPasses THEN "compile" ELSE "cleanup"
                   /\ files' = files \cup made
                   /\ UNCHANGED exit
    /\ UNCHANGED <<lang, outdir>>
    /\ RunFrame

\* lines 316-329: one pass of the loop
Compile ==
    /\ pc = "compile"
    /\ Len(rets) < NumPasses
    /\ \E ret \in RetCodes, made \in SUBSET CompilerOutputs(lang) :
         /\ files' = files \cup made
         /\ rets' = Append(rets, ret)
         /\ events' = Append(events, "xelatex")
         /\ IF ret # 0
              THEN Fail
              ELSE /\ pc' = IF Len(rets) + 1 < NumPasses THEN "compile" ELSE "cleanup"
                   /\ UNCHANGED exit
    /\ UNCHANGED <<lang, outdir>>
    /\ RunFrame

\* lines 331-341
Cleanup ==
    /\ pc = "cleanup"
    /\ files' = (files \ {OutFile(lang, ext) : ext \in CleanupExts}) \ {cls_file}
    /\ events' = Append(events, "unlink")
    /\ pc' = "check"
    /\ UNCHANGED <<lang, outdir, rets, exit>>
    /\ RunFrame

\* lines 343-348; falling off the end of the script is exit status 0
CheckPdf ==
    /\ pc = "check"
    /\ exit' = IF OutFile(lang, ".pdf") \in files THEN 0 ELSE 1
    /\ pc' = "exit"
    /\ UNCHANGED <<lang, outdir, files, rets>>
    /\ UNCHANGED events
    /\ RunFrame

Init ==
    /\ pc = "args"
    /\ argv \in Argvs
    /\ lang = ""
    /\ env \in Envs
    /\ outdir \in BOOLEAN
    /\ outdir0 = outdir
    /\ files0 \in (IF outdir THEN SUBSET Leftovers ELSE {{}})
    /\ files = files0
    /\ rets = << >>
    /\ events = << >>
    /\ exit = -1
    /\ call = NoCall
    /\ result = Pending

Next ==
    \/ CheckArgc
    \/ CheckLang
    \/ MakeOutputDir
    \/ CopyStyle
    \/ LoadConfig
    \/ ReadJson
    \/ ReadTemplate
    \/ WriteTex
    \/ Compile
    \/ Cleanup
    \/ CheckPdf

Spec == Init /\ [][Next]_vars

(***************************************************************************)
(* The text functions.  A study of one function starts from a call with    *)
(* arguments drawn from a bounded set and takes the one step that applies  *)
(* the function; the command-line run stands still meanwhile.              *)
(***************************************************************************)

Idle ==
    /\ pc = "none"
    /\ argv = << >>
    /\ lang = ""
    /\ env = [data |-> "ok", config |-> "absent", template |-> "ok", style |-> "ok"]
    /\ outdir = FALSE
    /\ outdir0 = FALSE
    /\ files0 = {}
    /\ files = {}
    /\ rets = << >>
    /\ events = << >>
    /\ exit = -1

IdleFrame == UNCHANGED <<pc, argv, lang, env, outdir, outdir0, files0, files,
                         rets, events, exit, call>>

\* the places where part occurs in s
Occurrences(s, part) ==
    {i \in 1..(Len(s) - Len(part) + 1) : SubSeq(s, i, i + Len(part) - 1) = part}

Least(S) == CHOOSE i \in S : \A j \in S : i <= j

\* str.replace(old, new) for a non-empty old: leftmost, non-overlapping
RECURSIVE replace(_, _, _)
replace(s, old, new) ==
    LET found == Occurrences(s, old)
    IN  IF found = {} THEN s
        ELSE LET i == Least(found)
             IN  SubSeq(s, 1, i - 1) \o new
                 \o replace(SubSeq(s, i + Len(old), Len(s)), old, new)

\* a table that handles the tilde and the caret before the braces
replacements_TildeFirst ==
    << <<"~", "\\textasciitilde{}">>, <<"^", "\\^{}">>,
       <<"&", "\\&">>, <<"%", "\\%">>, <<"$", "\\$">>, <<"#", "\\#">>,
       <<"_", "\\_">>, <<"{", "\\{">>, <<"}", "\\}">> >>

\* the dict of lines 30-40, in insertion order
replacements ==
    << <<"&", "\\&">>, <<"%", "\\%">>, <<"$", "\\$">>, <<"#", "\\#">>,
       <<"_", "\\_">>, <<"{", "\\{">>, <<"}", "\\}">>,
       <<"~", "\\textasciitilde{}">>, <<"^", "\\^{}">> >>

\* the loop of lines 42-43 over the first n entries of the table
RECURSIVE ReplaceAll(_, _)
ReplaceAll(text, n) ==
    IF n = 0 THEN text
    ELSE replace(ReplaceAll(text, n - 1), replacements[n][1], replacements[n][2])

\* lines 25-45
escape_latex(text) ==
    IF text = "" THEN "" ELSE ReplaceAll(text, Len(replacements))

\* longest text given to escape_latex on its own
MaxLen == 3

Alphabet == {"&", "%", "$", "#", "_", "{", "}", "~", "^", "\\", "a"}

RECURSIVE Texts(_)
Texts(n) ==
    IF n = 0 THEN {""}
    ELSE LET shorter == Texts(n - 1)
         IN  shorter \cup {t \o c : t \in shorter, c \in Alphabet}

InitEscape ==
    /\ Idle
    /\ call \in {[fn |-> "escape_latex", text |-> t] : t \in Texts(MaxLen)}
    /\ result = Pending

ApplyEscape ==
    /\ call.fn = "escape_latex"
    /\ ~result.done
    /\ result' = Returned(escape_latex(call.text))
    /\ IdleFrame

NextEscape == ApplyEscape

SpecEscape == InitEscape /\ [][NextEscape]_vars

(***************************************************************************)
(* format_date and format_date_range.                                      *)
(***************************************************************************)

DigitChars == {"0", "1", "2", "3", "4", "5", "6", "7", "8", "9"}

NonZeroDigitChars == DigitChars \ {"0"}

DigitVal(c) ==
    CASE c = "0" -> 0 [] c = "1" -> 1 [] c = "2" -> 2 [] c = "3" -> 3
      [] c = "4" -> 4 [] c = "5" -> 5 [] c = "6" -> 6 [] c = "7" -> 7
      [] c = "8" -> 8 [] c = "9" -> 9

DigitChar(n) == SubSeq("0123456789", n + 1, n + 1)

\* int() of a field matched by the directive patterns; a leading blank counts
\* for nothing
RECURSIVE ToInt(_)
ToInt(f) ==
    IF f = "" THEN 0
    ELSE IF Char(f, Len(f)) = " " THEN 0
    ELSE 10 * ToInt(SubSeq(f, 1, Len(f) - 1)) + DigitVal(Char(f, Len(f)))

\* %Y of strptime: \d\d\d\d
MatchYear(f) ==
    Len(f) = 4 /\ \A i \in 1..4 : Char(f, i) \in DigitChars

\* %m of strptime: 1[0-2]|0[1-9]|[1-9]
MatchMonth(f) ==
    \/ Len(f) = 2 /\ Char(f, 1) = "1" /\ Char(f, 2) \in {"0", "1", "2"}
    \/ Len(f) = 2 /\ Char(f, 1) = "0" /\ Char(f, 2) \in NonZeroDigitChars
    \/ Len(f) = 1 /\ f \in NonZeroDigitChars

\* %d of strptime: 3[01]|[12]\d|0[1-9]|[1-9]| [1-9]
MatchDay(f) ==
    \/ Len(f) = 2 /\ Char(f, 1) = "3" /\ Char(f, 2) \in {"0", "1"}
    \/ Len(f) = 2 /\ Char(f, 1) \in {"1", "2"} /\ Char(f, 2) \in DigitChars
    \/ Len(f) = 2 /\ Char(f, 1) = "0" /\ Char(f, 2) \in NonZeroDigitChars
    \/ Len(f) = 1 /\ f \in NonZeroDigitChars
    \/ Len(f) = 2 /\ Char(f, 1) = " " /\ Char(f, 2) \in NonZeroDigitChars

IsLeap(y) == (y % 4 = 0 /\ y % 100 # 0) \/ y % 400 = 0

DaysInMonth(y, m) ==
    IF m = 2 THEN (IF IsLeap(y) THEN 29 ELSE 28)
    ELSE IF m \in {4, 6, 9, 11} THEN 30 ELSE 31

NoDate == [ok |-> FALSE, year |-> 0, month |-> 0, day |-> 0]

\* the fields of a text that the pattern of '%Y-%m-%d' matches whole
DateFields(date_str) ==
    LET n == Len(date_str)
        cut == IF n >= 7 /\ Char(date_str, 7) = "-" THEN 7
               ELSE IF n >= 8 /\ Char(date_str, 8) = "-" THEN 8 ELSE 0
    IN  IF n < 5 \/ Char(date_str, 5) # "-" \/ cut = 0 THEN << >>
        ELSE << SubSeq(date_str, 1, 4), SubSeq(date_str, 6, cut - 1),
                SubSeq(date_str, cut + 1, n) >>

\* datetime.strptime(date_str, '%Y-%m-%d') at line 54; ok is FALSE where it
\* raises ValueError
strptime(date_str) ==
    LET f == DateFields(date_str)
    IN  IF f = << >> THEN NoDate
        ELSE IF ~(MatchYear(f[1]) /\ MatchMonth(f[2]) /\ MatchDay(f[3])) THEN NoDate
        ELSE LET y == ToInt(f[1])
                 m == ToInt(f[2])
                 d == ToInt(f[3])
             IN  IF y < 1 \/ d > DaysInMonth(y, m) THEN NoDate
                 ELSE [ok |-> TRUE, year |-> y, month |-> m, day |-> d]

Pad2(n) == DigitChar(n \div 10) \o DigitChar(n % 10)

Pad4(n) == Pad2(n \div 100) \o Pad2(n % 100)

\* date_obj.strftime('%m/%Y') at line 55
strftime(date_obj) == Pad2(date_obj.month) \o "/" \o Pad4(date_obj.year)

\* lines 48-57
format_date(date_str, l) ==
    IF date_str = "" THEN ""
    ELSE LET date_obj == strptime(date_str)
         IN  IF date_obj.ok THEN strftime(date_obj) ELSE date_str

\* stands for the en dash U+2013 of lines 66 and 69
EnDash == "="

\* a range that always says Current
format_date_range_NoLocale(start_date, end_date, l) ==
    LET start == format_date(start_date, l)
    IN  IF end_date = ""
          THEN start \o " " \o EnDash \o " " \o "Current"
          ELSE start \o " " \o EnDash \o " " \o format_date(end_date, l)

\* lines 60-69
format_date_range(start_date, end_date, l) ==
    LET start == format_date(start_date, l)
    IN  IF end_date = ""
          THEN LET current_text == IF l = "en" THEN "Current" ELSE "Attuale"
               IN  start \o " " \o EnDash \o " " \o current_text
          ELSE start \o " " \o EnDash \o " " \o format_date(end_date, l)

StudyYears == {"2019", "2020"}

StudyMonths == {"01", "1", "02", "06", "12", "13", "00"}

StudyDays == {"01", "5", " 5", "15", "29", "30", "31", "32", "00"}

StartDates ==
    {y \o "-" \o m \o "-" \o d : y \in StudyYears, m \in StudyMonths, d \in StudyDays}
    \cup {"", "2020", "2020-06", "06/2020", "2020/06/15", "20-06-15",
          "2020-06-15T00", "2020-06-", "-06-15", "June 2020", "202a-06-15"}

EndDates == {"", "2020-06-15", "2021-1-5", "2019-02-29", "2019-02-28", "today"}

InitDate ==
    /\ Idle
    /\ call \in {[fn |-> "format_date_range", start_date |-> a, end_date |-> b,
                  lang |-> l] : a \in StartDates, b \in EndDates, l \in Langs}
    /\ result = Pending

ApplyDateRange ==
    /\ call.fn = "format_date_range"
    /\ ~result.done
    /\ result' = Returned(format_date_range(call.start_date, call.end_date, call.lang))
    /\ IdleFrame

NextDate == ApplyDateRange

SpecDate == InitDate /\ [][NextDate]_vars

(***************************************************************************)
(* The section generators and generate_cv.  A missing key of the JSON data *)
(* is the empty text (or the empty list), which is what .get(key, '')      *)
(* makes of it.                                                            *)
(***************************************************************************)

\* sep.join(parts)
RECURSIVE Join(_, _)
Join(parts, sep) ==
    IF parts = << >> THEN ""
    ELSE IF Len(parts) = 1 THEN parts[1]
    ELSE parts[1] \o sep \o Join(Tail(parts), sep)

Min(a, b) == IF a < b THEN a ELSE b

\* the \item lines of lines 102-103
RECURSIVE Items(_)
Items(highlights) ==
    IF highlights = << >> THEN ""
    ELSE "      \\item {" \o escape_latex(highlights[1]) \o "}\n" \o Items(Tail(highlights))

\* one pass of the loop body, lines 79-115
JobBlock(job, config, l) ==
    LET date_range == format_date_range(job.startDate, job.endDate, l)
        highlights == IF config.max_highlights_per_job > 0
                        THEN SubSeq(job.highlights, 1,
                                    Min(config.max_highlights_per_job, Len(job.highlights)))
                        ELSE job.highlights
    IN  "\\cventrylong\n"
        \o "  {" \o escape_latex(job.position) \o "}\n"
        \o "  {" \o escape_latex(job.name) \o "}\n"
        \o "  {" \o escape_latex(job.location) \o "}\n"
        \o "  {" \o escape_latex(date_range) \o "}\n"
        \o "  {\n"
        \o (IF job.summary # "" THEN "    " \o escape_latex(job.summary) \o "\n" ELSE "")
        \o (IF job.highlights # << >>
              THEN "    \\begin{cvitems}\n" \o Items(highlights) \o "    \\end{cvitems}\n"
              ELSE "")
        \o "  }\n"
        \o (IF config.show_technologies /\ job.keywords # << >>
              THEN "  {" \o escape_latex(Join(job.keywords, ", ")) \o "}\n"
              ELSE "  {}\n")
        \o "\n"

\* lines 72-117
RECURSIVE generate_experience_section(_, _, _)
generate_experience_section(work, config, l) ==
    IF work = << >> THEN ""
    ELSE JobBlock(work[1], config, l) \o generate_experience_section(Tail(work), config, l)

\* lines 120-139
RECURSIVE generate_education_section(_, _)
generate_education_section(education, l) ==
    IF education = << >> THEN ""
    ELSE LET edu == education[1]
             date_range == format_date_range(edu.startDate, edu.endDate, l)
         IN  "\\cventry\n"
             \o "  {" \o escape_latex(edu.studyType) \o "}\n"
             \o "  {" \o escape_latex(edu.institution) \o "}\n"
             \o "  {" \o escape_latex(edu.location) \o "}\n"
             \o "  {" \o escape_latex(date_range) \o "}\n"
             \o "  {}\n\n"
             \o generate_education_section(Tail(education), l)

EscapeEach(keywords) == [i \in 1..Len(keywords) |-> escape_latex(keywords[i])]

\* a skills section that joins the keywords as they are
RECURSIVE generate_skills_section_Raw(_, _)
generate_skills_section_Raw(skills, l) ==
    IF skills = << >> THEN ""
    ELSE LET skill == skills[1]
         IN  (IF skill.keywords # << >>
                THEN "\\cvskills\n"
                     \o "  {" \o escape_latex(skill.name) \o "}\n"
                     \o "  {\n"
                     \o "    " \o Join(skill.keywords, " \\textbar\\ ")
                     \o "\n  }\n\n"
                ELSE "")
             \o generate_skills_section_Raw(Tail(skills), l)

\* lines 142-157
RECURSIVE generate_skills_section(_, _)
generate_skills_section(skills, l) ==
    IF skills = << >> THEN ""
    ELSE LET skill == skills[1]
         IN  (IF skill.keywords # << >>
                THEN "\\cvskills\n"
                     \o "  {" \o escape_latex(skill.name) \o "}\n"
                     \o "  {\n"
                     \o "    " \o Join(EscapeEach(skill.keywords), " \\textbar\\ ")
                     \o "\n  }\n\n"
                ELSE "")
             \o generate_skills_section(Tail(skills), l)

\* lines 181-198
labels(l) ==
    IF l = "en"
      THEN [summary |-> "Summary", experience |-> "Experience",
            education |-> "Education", skills |-> "Skills"]
      ELSE [summary |-> "Profilo", experience |-> "Esperienza",
            education |-> "Istruzione", skills |-> "Competenze"]

NonEmpty(parts) == SelectSeq(parts, LAMBDA part : part # "")

\* lines 204-218
full_address(location, l) ==
    LET country == IF location.countryCode = "IT"
                     THEN (IF l = "en" THEN "Italy" ELSE "Italia")
                     ELSE location.countryCode
    IN  Join(NonEmpty(<<location.address, location.postalCode, location.city, country>>),
             ", ")

UpperCase == "ABCDEFGHIJKLMNOPQRSTUVWXYZ"
LowerCase == "abcdefghijklmnopqrstuvwxyz"

LowerChar(c) ==
    IF \E i \in 1..26 : Char(UpperCase, i) = c
      THEN Char(LowerCase, CHOOSE i \in 1..26 : Char(UpperCase, i) = c)
      ELSE c

\* str.lower()
RECURSIVE lower(_)
lower(t) == IF t = "" THEN "" ELSE LowerChar(Char(t, 1)) \o lower(Tail(t))

\* the loop of lines 221-229 over the first n profiles; the pair is
\* <<linkedin_username, github_username>>
RECURSIVE usernames(_, _)
usernames(profiles, n) ==
    IF n = 0 THEN <<"", "">>
    ELSE LET before  == usernames(profiles, n - 1)
             network == lower(profiles[n].network)
         IN  IF network = "linkedin" THEN <<profiles[n].username, before[2]>>
             ELSE IF network = "github" THEN <<before[1], profiles[n].username>>
             ELSE before

colorlet == "\\colorlet{awesome}{awesome-skyblue}"

\* the replacements of lines 233-261, in order
Substitutions(data, config, l) ==
    LET basics == data.basics
        names  == usernames(basics.profiles, Len(basics.profiles))
    IN  << <<"{{NAME}}", escape_latex(basics.name)>>,
           <<"{{TITLE}}", escape_latex(basics.label)>>,
           <<"{{ADDRESS}}", escape_latex(full_address(basics.location, l))>>,
           <<"{{PHONE}}", escape_latex(basics.phone)>>,
           <<"{{EMAIL}}", escape_latex(basics.email)>>,
           <<"{{LINKEDIN}}", names[1]>>,
           <<"{{GITHUB}}", names[2]>>,
           <<"{{HOMEPAGE}}", basics.url>>,
           <<colorlet, "\\colorlet{awesome}{awesome-" \o config.color \o "}">>,
           <<"{{LABEL_SUMMARY}}", labels(l).summary>>,
           <<"{{SUMMARY}}", escape_latex(basics.summary)>>,
           <<"{{LABEL_EXPERIENCE}}", labels(l).experience>>,
           <<"{{EXPERIENCE}}", generate_experience_section(data.work, config, l)>>,
           <<"{{LABEL_EDUCATION}}", labels(l).education>>,
           <<"{{EDUCATION}}", generate_education_section(data.education, l)>>,
           <<"{{LABEL_SKILLS}}", labels(l).skills>>,
           <<"{{SKILLS}}", generate_skills_section(data.skills, l)>> >>

\* cv_content after the first n replacements
RECURSIVE Replaced(_, _, _)
Replaced(template, subs, n) ==
    IF n = 0 THEN template
    ELSE replace(Replaced(template, subs, n - 1), subs[n][1], subs[n][2])

\* lines 200-266: the text written to cv-{lang}.tex, with the two handles
generate_cv(data, config, template, l) ==
    LET subs  == Substitutions(data, config, l)
        names == usernames(data.basics.profiles, Len(data.basics.profiles))
    IN  [cv_content |-> Replaced(template, subs, Len(subs)),
         linkedin_username |-> names[1],
         github_username |-> names[2]]

(***************************************************************************)
(* The calls of generate_cv studied: documents whose free texts all carry  *)
(* one special character, and documents that vary the profile list and the *)
(* homepage.                                                               *)
(***************************************************************************)

\* most work entries of a document
MaxJobs == 2

\* most highlights of a work entry
MaxHighlights == 2

\* most profile entries of a document
MaxProfiles == 2

\* a template in the order of the replacements
Template1 ==
    "\\colorlet{awesome}{awesome-skyblue}\n"
    \o "\\name{{{NAME}}}\\position{{{TITLE}}}\\address{{{ADDRESS}}}\n"
    \o "\\mobile{{{PHONE}}}\\email{{{EMAIL}}}\\linkedin{{{LINKEDIN}}}\n"
    \o "\\github{{{GITHUB}}}\\homepage{{{HOMEPAGE}}}\n"
    \o "\\cvsection{{{LABEL_SUMMARY}}}\n{{SUMMARY}}\n"
    \o "\\cvsection{{{LABEL_EXPERIENCE}}}\n{{EXPERIENCE}}"
    \o "\\cvsection{{{LABEL_EDUCATION}}}\n{{EDUCATION}}"
    \o "\\cvsection{{{LABEL_SKILLS}}}\n{{SKILLS}}"

\* a template with the sections first and the header last
Template2 ==
    "\\cvsection{{{LABEL_SKILLS}}}\n{{SKILLS}}"
    \o "\\cvsection{{{LABEL_EDUCATION}}}\n{{EDUCATION}}"
    \o "\\cvsection{{{LABEL_EXPERIENCE}}}\n{{EXPERIENCE}}"
    \o "\\cvsection{{{LABEL_SUMMARY}}}\n{{SUMMARY}}\n"
    \o "\\homepage{{{HOMEPAGE}}}\\github{{{GITHUB}}}\\linkedin{{{LINKEDIN}}}\n"
    \o "\\email{{{EMAIL}}}\\mobile{{{PHONE}}}\\address{{{ADDRESS}}}\n"
    \o "\\position{{{TITLE}}}\\name{{{NAME}}}\n"
    \o "\\colorlet{awesome}{awesome-skyblue}\n"

Templates == {Template1, Template2}

Configs == [show_technologies : BOOLEAN, max_highlights_per_job : {0, 1},
            color : {"emerald"}]

\* the defaults of lines 75, 76 and 243
DefaultConfig == [show_technologies |-> TRUE, max_highlights_per_job |-> 0,
                  color |-> "skyblue"]

Job(j, c, nh) ==
    [position   |-> "Position" \o DigitChar(j) \o c,
     name       |-> "Org" \o DigitChar(j) \o c,
     location   |-> "Place" \o DigitChar(j) \o c,
     startDate  |-> IF j % 2 = 1 THEN "Start" \o DigitChar(j) \o c ELSE "2019-01-01",
     endDate    |-> IF j % 2 = 1 THEN "" ELSE "End" \o DigitChar(j) \o c,
     summary    |-> IF j % 2 = 1 THEN "About" \o DigitChar(j) \o c ELSE "",
     highlights |-> [h \in 1..nh |-> "Did" \o DigitChar(j) \o DigitChar(h) \o c],
     keywords   |-> IF j % 2 = 1
                      THEN <<"Tech" \o DigitChar(j) \o "a" \o c,
                             "Tech" \o DigitChar(j) \o "b" \o c>>
                      ELSE << >>]

Basics(c, profiles, url) ==
    [name |-> "Name" \o c, label |-> "Label" \o c, phone |-> "Phone" \o c,
     email |-> "Email" \o c, summary |-> "Bio" \o c, url |-> url,
     location |-> [address |-> "Street" \o c, postalCode |-> "Zip" \o c,
                   city |-> "City" \o c, countryCode |-> "IT"],
     profiles |-> profiles]

Document(c, nj, nh, profiles, url) ==
    [basics |-> Basics(c, profiles, url),
     work |-> [j \in 1..nj |-> Job(j, c, nh)],
     education |-> << [studyType |-> "Degree" \o c, institution |-> "School" \o c,
                       location |-> "Campus" \o c, startDate |-> "2010-09-01",
                       endDate |-> "Grad" \o c] >>,
     skills |-> << [name |-> "Skill1" \o c, keywords |-> <<"Kw1" \o c, "Kw2" \o c>>],
                   [name |-> "Skill2" \o c, keywords |-> << >>] >>]

Injected == [network |-> "linkedin", username |-> "{{GITHUB}}"]

Profiles ==
    [network : {"LinkedIn", "linkedin", "GitHub", "Twitter"},
     username : {"alice", "bob"}]
    \cup {Injected}

RECURSIVE ProfileLists(_)
ProfileLists(n) ==
    IF n = 0 THEN {<< >>}
    ELSE LET shorter == ProfileLists(n - 1)
         IN  shorter \cup {Append(ps, p) : ps \in shorter, p \in Profiles}

Urls == {"", "https://example.org/~me", "{{SUMMARY}}"}

CvCall(data, config, template, l) ==
    [fn |-> "generate_cv", data |-> data, config |-> config,
     template |-> template, lang |-> l]

TextCalls ==
    {CvCall(Document(c, nj, nh, << >>, ""), config, Template1, l) :
        c \in {"&", "%", "$", "#", "_", "{", "}", "~", "^"},
        nj \in 0..MaxJobs, nh \in 0..MaxHighlights, config \in Configs, l \in Langs}

HandleCalls ==
    {CvCall(Document("&", 0, 0, profiles, ""), DefaultConfig, Template1, "en") :
        profiles \in ProfileLists(MaxProfiles)}
    \cup
    {CvCall(Document("&", 0, 0, profiles, url), DefaultConfig, template, "en") :
        profiles \in {<< >>, <<Injected>>}, url \in Urls, template \in Templates}

InitCv ==
    /\ Idle
    /\ call \in TextCalls \cup HandleCalls
    /\ result = Pending

ApplyGenerateCv ==
    /\ call.fn = "generate_cv"
    /\ ~result.done
    /\ result' = Returned(generate_cv(call.data, call.config, call.template, call.lang))
    /\ IdleFrame

NextCv == ApplyGenerateCv

SpecCv == InitCv /\ [][NextCv]_vars

(***************************************************************************)
(* Properties of the command-line run.                                     *)
(***************************************************************************)

Intermediates(l) == {OutFile(l, ".tex"), OutFile(l, ".aux"),
                     OutFile(l, ".out"), OutFile(l, ".log")}

AllZero(rs) == \A i \in 1..Len(rs) : rs[i] = 0

BadArgs == Len(argv) < 1 \/ argv[1] \notin {"en", "it"}

Count(seq, e) == Cardinality({i \in 1..Len(seq) : seq[i] = e})

Before(seq, e, i) == \E j \in 1..(i - 1) : seq[j] = e

\* C1: a run that ends with status 0 leaves cv-L.pdf in the output
\* directory and none of cv-L.tex, cv-L.aux, cv-L.out, cv-L.log or
\* awesome-cv.cls; a run whose two compiler passes both returned 0 and that
\* ends without cv-L.pdf ends with status 1.
C1_SuccessLeavesOnlyPdf ==
    /\ exit = 0 =>
          /\ OutFile(lang, ".pdf") \in files
          /\ files \cap (Intermediates(lang) \cup {"awesome-cv.cls"}) = {}
    /\ (pc = "exit" /\ Len(rets) = 2 /\ AllZero(rets)
            /\ OutFile(lang, ".pdf") \notin files) => exit = 1

C1_Witness ==
    /\ exit = 0
    /\ Len(rets) = 2
    /\ "awesome-cv.cls" \in files0
    /\ OutFile(lang, ".pdf") \in files

\* C2: a non-zero return of the compiler ends the run at once with status
\* 1: it is the last invocation, and cv-L.tex and awesome-cv.cls are still
\* in the output directory.
C2_CompilerFailureKeepsFiles ==
    \A i \in 1..Len(rets) :
        rets[i] # 0 =>
            /\ i = Len(rets)
            /\ pc = "exit"
            /\ exit = 1
            /\ {OutFile(lang, ".tex"), "awesome-cv.cls"} \subseteq files
            /\ Count(events, "unlink") = 0

C2_Witness ==
    /\ Len(rets) = 2
    /\ rets[1] = 0
    /\ rets[2] # 0
    /\ exit = 1
    /\ OutFile(lang, ".tex") \in files

\* C3: with the JSON data file missing or unparsable the run ends with
\* status 1, the compiler was never invoked and no file was created in the
\* output directory.
C3_NoPartialOutput ==
    (pc = "exit" /\ ~BadArgs /\ env.data # "ok") =>
        /\ exit = 1
        /\ rets = << >>
        /\ files \ files0 = {}

\* C4: with the language argument missing or not en/it the run ends with
\* status 1 and has done nothing: no directory made, no file copied or
\* written, no compiler pass.
C4_BadArgsTouchNothing ==
    BadArgs =>
        /\ pc \in {"args", "lang", "exit"}
        /\ pc = "exit" => exit = 1
        /\ outdir = outdir0
        /\ files = files0
        /\ events = << >>
        /\ rets = << >>

C4_Witness ==
    /\ pc = "exit"
    /\ exit = 1
    /\ Len(argv) = 1
    /\ argv[1] = "fr"
    /\ ~outdir

\* C10: the steps come in a fixed order: at most two compiler passes, each
\* after the markup was written and the style copied, the second only
\* after the first returned 0, and nothing is deleted before the second
\* returned 0.
C10_StepOrder ==
    /\ [](/\ Count(events, "xelatex") <= 2
          /\ Count(events, "xelatex") = Len(rets)
          /\ \A e \in {"mkdir", "copy", "write", "unlink"} : Count(events, e) <= 1
          /\ \A i \in 1..Len(events) :
                /\ events[i] = "xelatex" =>
                      Before(events, "write", i) /\ Before(events, "copy", i)
                /\ events[i] = "unlink" =>
                      Len(rets) = 2 /\ AllZero(rets)
          /\ Len(rets) = 2 => rets[1] = 0)
    /\ [][(~(files \subseteq files')) => (Len(rets) = 2 /\ AllZero(rets))]_vars

C10_Witness ==
    /\ events = <<"mkdir", "copy", "write", "xelatex", "xelatex", "unlink">>
    /\ rets = <<0, 0>>

(***************************************************************************)
(* Properties of escape_latex.                                             *)
(***************************************************************************)

Specials == {"&", "%", "$", "#", "_", "{", "}", "~", "^"}

\* the escape sequence of one character, written out
EscapeOf(c) ==
    CASE c = "&" -> "\\&"
      [] c = "%" -> "\\%"
      [] c = "$" -> "\\$"
      [] c = "#" -> "\\#"
      [] c = "_" -> "\\_"
      [] c = "{" -> "\\{"
      [] c = "}" -> "\\}"
      [] c = "~" -> "\\textasciitilde{}"
      [] c = "^" -> "\\^{}"
      [] OTHER -> c

\* every character escaped exactly once, left to right
RECURSIVE EscapedOnce(_)
EscapedOnce(t) ==
    IF t = "" THEN "" ELSE EscapeOf(Char(t, 1)) \o EscapedOnce(Tail(t))

EndsWith(s, suffix) ==
    /\ Len(s) >= Len(suffix)
    /\ SubSeq(s, Len(s) - Len(suffix) + 1, Len(s)) = suffix

AfterBackslash(s, i) == i > 1 /\ Char(s, i - 1) = "\\"

\* position i opens the empty group that closes \textasciitilde{} or \^{}
OpensGroup(s, i) ==
    /\ Char(s, i) = "{"
    /\ i < Len(s)
    /\ Char(s, i + 1) = "}"
    /\ \/ EndsWith(SubSeq(s, 1, i - 1), "\\textasciitilde")
       \/ EndsWith(SubSeq(s, 1, i - 1), "\\^")

InEscape(s, i) ==
    \/ AfterBackslash(s, i)
    \/ OpensGroup(s, i)
    \/ Char(s, i) = "}" /\ i > 1 /\ OpensGroup(s, i - 1)

\* C6 as stated: in the result of escape_latex every one of the 9
\* characters is immediately preceded by a backslash, and no character is
\* escaped twice.
C6_AllAfterBackslash ==
    (call.fn = "escape_latex" /\ result.done) =>
        /\ \A i \in 1..Len(result.value) :
              Char(result.value, i) \in Specials => AfterBackslash(result.value, i)
        /\ result.value = EscapedOnce(call.text)

\* C6 amended: the result of escape_latex is the text with every one of
\* the 9 characters replaced once by its escape sequence and every other
\* character copied, so each of the 9 characters in the result follows a
\* backslash or belongs to the {} that ends \textasciitilde{} or \^{}.
C6_EscapedOnce ==
    (call.fn = "escape_latex" /\ result.done) =>
        /\ result.value = EscapedOnce(call.text)
        /\ \A i \in 1..Len(result.value) :
              Char(result.value, i) \in Specials => InEscape(result.value, i)

C6_Witness ==
    /\ call.fn = "escape_latex"
    /\ result.done
    /\ call.text = "{~^"
    /\ result.value = "\\{\\textasciitilde{}\\^{}"

(***************************************************************************)
(* Properties of format_date_range.                                        *)
(***************************************************************************)

PresentWord(l) == CASE l = "en" -> "Current" [] l = "it" -> "Attuale"

\* a calendar date written YYYY-MM-DD, two digits for month and day
IsYMD(t) ==
    /\ Len(t) = 10
    /\ Char(t, 5) = "-"
    /\ Char(t, 8) = "-"
    /\ \A i \in {1, 2, 3, 4, 6, 7, 9, 10} : Char(t, i) \in DigitChars
    /\ ToInt(SubSeq(t, 6, 7)) \in 1..12
    /\ ToInt(SubSeq(t, 9, 10)) \in
          1..DaysInMonth(ToInt(SubSeq(t, 1, 4)), ToInt(SubSeq(t, 6, 7)))

\* the format of the claim: YYYY-MM-DD becomes MM/YYYY, anything else stays
StrictFormat(t) ==
    IF t = "" THEN ""
    ELSE IF IsYMD(t) THEN SubSeq(t, 6, 7) \o "/" \o SubSeq(t, 1, 4)
    ELSE t

\* the spellings strptime takes for month or day number n
Spellings(n, blank) ==
    {Pad2(n)} \cup (IF n < 10 THEN {DigitChar(n)} ELSE {})
              \cup (IF n < 10 /\ blank THEN {" " \o DigitChar(n)} ELSE {})

\* every accepted text of the years studied, with the text it is turned into
AcceptedDates ==
    UNION {UNION {UNION {
        {<<y \o "-" \o ms \o "-" \o ds, Pad2(m) \o "/" \o y>> :
            ms \in Spellings(m, FALSE), ds \in Spellings(d, TRUE)}
        : d \in 1..DaysInMonth(ToInt(y), m)} : m \in 1..12} : y \in StudyYears \cup {"2021"}}

LenientFormat(t) ==
    IF t = "" THEN ""
    ELSE IF \E p \in AcceptedDates : p[1] = t
           THEN (CHOOSE p \in AcceptedDates : p[1] = t)[2]
           ELSE t

RangeTail(f(_)) ==
    IF call.end_date = "" THEN PresentWord(call.lang) ELSE f(call.end_date)

Contains(t, part) == Occurrences(t, part) # {}

HasSpecial(t) == \E i \in 1..Len(t) : Char(t, i) \in Specials

Range(seq) == {seq[i] : i \in 1..Len(seq)}

\* the free texts of a document
FreeTexts(data) ==
    LET b == data.basics
    IN  {b.name, b.label, b.phone, b.email, b.summary,
         b.location.address, b.location.postalCode, b.location.city}
        \cup UNION {{job.position, job.name, job.location, job.startDate,
                     job.endDate, job.summary}
                    \cup Range(job.highlights) \cup Range(job.keywords)
                    : job \in Range(data.work)}
        \cup UNION {{edu.studyType, edu.institution, edu.location, edu.startDate,
                     edu.endDate} : edu \in Range(data.education)}
        \cup UNION {{skill.name} \cup Range(skill.keywords) : skill \in Range(data.skills)}

\* the free texts that the configuration keeps out of the markup
LeftOut(data, config) ==
    UNION {(IF config.show_technologies THEN {} ELSE Range(job.keywords))
           \cup (IF config.max_highlights_per_job > 0
                   THEN {job.highlights[i] :
                           i \in (config.max_highlights_per_job + 1)..Len(job.highlights)}
                   ELSE {})
           : job \in Range(data.work)}
    \cup {skill.name : skill \in {k \in Range(data.skills) : k.keywords = << >>}}

\* C5: a free text of the document never reaches the markup as it is or
\* escaped twice, and where it is rendered it is there escaped once.
C5_EscapedExactlyOnce ==
    (call.fn = "generate_cv" /\ result.done) =>
        \A t \in {x \in FreeTexts(call.data) : HasSpecial(x)} :
            /\ ~Contains(result.value.cv_content, t)
            /\ ~Contains(result.value.cv_content, EscapedOnce(EscapedOnce(t)))
            /\ t \notin LeftOut(call.data, call.config) =>
                  Contains(result.value.cv_content, EscapedOnce(t))

C5_Witness ==
    /\ call.fn = "generate_cv"
    /\ result.done
    /\ Len(call.data.work) = 2
    /\ Len(call.data.work[1].highlights) = 2
    /\ call.data.basics.name = "Name~"
    /\ Contains(result.value.cv_content, "Kw1\\textasciitilde{} \\textbar\\ Kw2\\textasciitilde{}")
    /\ Contains(result.value.cv_content, "\\item {Did12\\textasciitilde{}}")

\* the username of the first profile whose network is the given one
FirstUsername(profiles, network) ==
    LET hits == {i \in 1..Len(profiles) : lower(profiles[i].network) = network}
    IN  IF hits = {} THEN "" ELSE profiles[Least(hits)].username

\* C7: the LinkedIn handle is the username of the first profile whose
\* network is linkedin in any case, the GitHub handle that of the first
\* github profile, and the empty text when there is none.
C7_FirstProfileWins ==
    (call.fn = "generate_cv" /\ result.done) =>
        /\ result.value.linkedin_username
              = FirstUsername(call.data.basics.profiles, "linkedin")
        /\ result.value.github_username
              = FirstUsername(call.data.basics.profiles, "github")

\* the template with every placeholder replaced in one pass, the inserted
\* values not looked at again
RECURSIVE Verbatim(_, _)
Verbatim(t, subs) ==
    LET found == UNION {Occurrences(t, subs[k][1]) : k \in 1..Len(subs)}
    IN  IF found = {} THEN t
        ELSE LET i == Least(found)
                 k == CHOOSE k \in 1..Len(subs) : i \in Occurrences(t, subs[k][1])
             IN  SubSeq(t, 1, i - 1) \o subs[k][2]
                 \o Verbatim(SubSeq(t, i + Len(subs[k][1]), Len(t)), subs)

\* C8: every value put in for a placeholder is in the final markup as it
\* was put in; no later replacement touches it.
C8_ValuesVerbatim ==
    (call.fn = "generate_cv" /\ result.done) =>
        result.value.cv_content
            = Verbatim(call.template, Substitutions(call.data, call.config, call.lang))

====
